---------------------------- MODULE Spec2Model ----------------------------
(***************************************************************************)
(* eZeeDashboard: the cache-and-aggregate pipeline of the reporting proxy. *)
(*                                                                         *)
(* Part 1 (specification Spec) models the fetch orchestrators of the       *)
(* repository's snapshots as one state machine: the cache files on disk,   *)
(* the clock, and a fixed number of request slots, each running one        *)
(* fetchData / fetchBookingListDay call.  A JavaScript handler runs        *)
(* atomically between two awaits, so one action is one such run.           *)
(*                                                                         *)
(*   "index"  : fetchData,            src/server/index.js 286-349          *)
(*              (the copy at 19-81 differs only in where timeoutMs is      *)
(*              computed)                                                  *)
(*   "reqres" : fetchData(req, res),  src/server/index.js 149-204          *)
(*   "part0"  : fetchData,            src/unnamed/part_000 43-106          *)
(*   "byDay"  : fetchBookingListDay,  src/unnamed/part_000 400-443         *)
(***************************************************************************)
EXTENDS Integers, Sequences, FiniteSets, TLC

\* ------------------------------------------------------------------ bounds
NumReqs == 2      \* request slots (requests in flight at once)
MaxClock == 2     \* the clock runs over 1..MaxClock seconds
MaxData == 2      \* distinct upstream payloads; payload d serialises to d length units
MaxTimeout == 1   \* largest CACHE_TIMEOUT value, in seconds
MaxRequests == 3  \* requests received in one run

\* --------------------------------------------------------------- constants
MsPerSec == 1000  \* timeoutMs = seconds * 1000

Reqs == 1..NumReqs
Data == 1..MaxData
Variants == {"index", "reqres", "part0", "byDay"}
Days == {"2025-08-10", "2025-08-11"}
SingleKey == "cache"                   \* the one key of the single-record caches
CachePath == "./cache.json"
ServerCachePath == "./server/cache.json"
Paths == {CachePath, ServerCachePath}

VARIABLES
  variant,    \* which snapshot is running
  envTimeout, \* process.env.CACHE_TIMEOUT: [set |-> BOOLEAN, numeric |-> BOOLEAN, v |-> Nat]
  now,        \* Date.now(), in ms
  files,      \* path -> content of the file
  req,        \* request slot -> state of the call it runs
  lastDone,   \* history: the cache write that completed last, cleared when a later write begins
  received    \* history: the number of requests received so far

vars == <<variant, envTimeout, now, files, req, lastDone, received>>

\* The state of Part 2 (the aggregators).
VARIABLES
  shape,         \* which payload is built: "tree", "api" (tree with amounts) or "list"
  tree,          \* data.Reservations: [Reservation, CancelReservation]
  blist,         \* data.BookingList
  out,           \* what the last aggregator call returned (or that it threw)
  protoPolluted  \* Object.prototype carries enumerable properties an earlier call created

svars == <<shape, tree, blist, out, protoPolluted>>
VARIABLES
  monthKey,      \* the month of the report: [Y, M] of the key "YYYY-MM"
  mdata,         \* the Reservation array of the payload given to computeMonthlyCalendar
  mout           \* what computeMonthlyCalendar returned, NoCalendar before the call
mvars == <<monthKey, mdata, mout>>
VARIABLES
  gvariant,      \* which GET / handler runs: "twoPass" (part_000) or "incremental" (part_001)
  glist,         \* data.BookingList of the payload fetch_data returned
  gout           \* the response of GET /, NoResponse before it is sent
gvars == <<gvariant, glist, gout>>
allvars == <<vars, svars, mvars, gvars>>


\* ------------------------------------------------------- file contents
\* A file's content, as far as JSON.parse and the property reads can tell:
\*   kind "missing"  no file (readFileSync throws)
\*        "empty"    zero bytes
\*        "garbled"  bytes that are not valid JSON
\*        "null"     the JSON text null
\*        "prim"     a JSON number, string or boolean
\*        "object"   a JSON object; hasTs/ts/data are its timestamp and data
\*                   fields, byDayKind/byDay its byDay field
\*   len  is the length of what fs.writeFile wrote (only its order matters).
NoEntry == [has |-> FALSE, hasTs |-> FALSE, ts |-> 0, data |-> 0]
NoByDay == [d \in Days |-> NoEntry]

Blank(kind) ==
  [kind |-> kind, hasTs |-> FALSE, ts |-> 0, data |-> 0,
   byDayKind |-> "absent", byDay |-> NoByDay, len |-> 0]

Missing == Blank("missing")
EmptyFile == Blank("empty")
Garbled(n) == [Blank("garbled") EXCEPT !.len = n]
JsonNull == Blank("null")
JsonPrim == Blank("prim")
EmptyObject == Blank("object")

\* JSON.stringify({ timestamp, data })
RecordObject(ts, d) ==
  [EmptyObject EXCEPT !.hasTs = TRUE, !.ts = ts, !.data = d, !.len = d]

Entry(ts, d) == [has |-> TRUE, hasTs |-> TRUE, ts |-> ts, data |-> d]


\* --------------------------------------------------------- configuration
\* Number(process.env.CACHE_TIMEOUT) is NaN when the variable is unset or not
\* numeric.  timeoutMs = (Number(process.env.CACHE_TIMEOUT) || 0) * 1000
EnvValues ==
  {[set |-> FALSE, numeric |-> FALSE, v |-> 0], [set |-> TRUE, numeric |-> FALSE, v |-> 0]}
  \cup {[set |-> TRUE, numeric |-> TRUE, v |-> n] : n \in 0..MaxTimeout}

IsNaN(env) == ~(env.set /\ env.numeric)

timeoutMs == IF IsNaN(envTimeout) THEN 0 ELSE envTimeout.v * MsPerSec

\* cacheObj.timestamp && Date.now() - cacheObj.timestamp < timeoutMs
\* (a missing timestamp and the timestamp 0 are falsy)
IsFresh(hasTs, ts) == hasTs /\ ts # 0 /\ now - ts < timeoutMs

\* cache.timestamp && Date.now() - cache.timestamp < process.env.CACHE_TIMEOUT * 1000
\* (a comparison with NaN is false)
IsFreshReqRes(hasTs, ts) ==
  hasTs /\ ts # 0 /\ ~IsNaN(envTimeout) /\ now - ts < envTimeout.v * MsPerSec

\* The file each snapshot reads and the file it writes.
ReadPath == IF variant = "part0" THEN ServerCachePath ELSE CachePath
WritePath == CachePath

\* ------------------------------------------------------------- requests
NoResult == [tag |-> "none", v |-> 0]
Err == [tag |-> "error", v |-> 0]
Undefined == [tag |-> "undefined", v |-> 0]
Payload(d) == [tag |-> "data", v |-> d]

IdleReq ==
  [pc |-> "idle", key |-> SingleKey, store |-> Missing, src |-> "none",
   result |-> NoResult, up |-> "none", nUp |-> 0, nRead |-> 0, nWrite |-> 0,
   w |-> "none", rec |-> Missing, waited |-> FALSE]

\* Request slots are interchangeable: a new request takes the lowest free slot.
LowestFree(r) == \A q \in Reqs : q < r => req[q].pc # "idle"

NoneDone == [set |-> FALSE, key |-> SingleKey, ts |-> 0, data |-> 0]

\* ---------------------------------------------------------- cache read
\* fetchData, step 1: the record of the file when it is present and fresh.
\* readFileSync throws on a missing file, an empty raw string is falsy,
\* JSON.parse throws on invalid JSON, null.timestamp throws inside the inner
\* try, a primitive has no timestamp: all of them fall through to the fetch.
FetchDataHit(c) ==
  /\ c.kind = "object"
  /\ IF variant = "reqres" THEN IsFreshReqRes(c.hasTs, c.ts) ELSE IsFresh(c.hasTs, c.ts)

\* readCache(): JSON.parse of the file, { byDay: {} } when reading or parsing throws.
readCache(c) ==
  IF c.kind \in {"missing", "empty", "garbled"}
    THEN [EmptyObject EXCEPT !.byDayKind = "map"]
    ELSE c

\* store.byDay?.[day]: store.byDay throws a TypeError when store is null.
ReadThrows(store) == store.kind = "null"

\* hit = store.byDay?.[day]
HitOf(store, day) ==
  IF store.kind = "object" /\ store.byDayKind = "map" THEN store.byDay[day] ELSE NoEntry

\* hit && hit.timestamp && Date.now() - hit.timestamp < timeoutMs
DayHit(store, day) ==
  LET hit == HitOf(store, day) IN hit.has /\ IsFresh(hit.hasTs, hit.ts)


\* ------------------------------------------------------------ cache write
\* fs.writeFile opens the file with flag "w" (truncating it), writes from its
\* own position 0 and closes.  Two calls on one file are not ordered with
\* each other: bytes a longer earlier write left behind survive a shorter
\* later one, and the file is then not valid JSON.
OverlayKeepsFirst(cur, new) ==
  IF cur.kind = "empty" THEN new ELSE cur
Overlay(cur, new) ==
  IF cur.len > new.len THEN Garbled(cur.len) ELSE new

\* store.byDay = store.byDay || {}; store.byDay[day] = {...}: in an ES module
\* (strict mode) creating a property on a primitive throws a TypeError.
StoreThrows(store) ==
  \/ store.kind = "prim"
  \/ store.kind = "object" /\ store.byDayKind = "prim"

\* store after store.byDay[day] = { timestamp: Date.now(), data }
StoreWith(store, day, d) ==
  [store EXCEPT !.byDayKind = "map",
                !.byDay = [(IF store.byDayKind = "map" THEN store.byDay ELSE NoByDay)
                             EXCEPT ![day] = Entry(now, d)]]

\* What a call answers when its upstream call failed: it throws.
FailureResultFallback(c) ==
  IF c.kind = "object" /\ c.hasTs THEN Payload(c.data) ELSE Err
FailureResult(c) == Err

\* The call after an upstream failure: no retry, the error propagates.
FailedRetry(rq, outcome, c) ==
  [rq EXCEPT !.nUp = @ + 1, !.up = outcome]
FailedStoresError(rq, outcome, c) ==
  [rq EXCEPT !.pc = "done", !.up = outcome, !.result = FailureResult(c), !.store = Missing,
             !.nWrite = 1, !.w = "scheduled"]
Failed(rq, outcome, c) ==
  [rq EXCEPT !.pc = "done", !.up = outcome, !.result = FailureResult(c), !.store = Missing]

\* ---------------------------------------------------------------- actions
Tick ==
  /\ now < MaxClock * MsPerSec
  /\ now' = now + MsPerSec
  /\ UNCHANGED <<svars, mvars, gvars, variant, envTimeout, files, req, lastDone, received>>

\* fetchData up to its first await: the cache read, then either the cached
\* payload or the upstream call.
StartFetchData(r) ==
  /\ variant # "byDay"
  /\ req[r].pc = "idle"
  /\ LowestFree(r)
  /\ received < MaxRequests
  /\ received' = received + 1
  /\ LET c == files[ReadPath] IN
       req' = [req EXCEPT ![r] =
                 IF FetchDataHit(c)
                   THEN [@ EXCEPT !.pc = "done", !.src = "cache", !.nRead = 1,
                                  !.result = Payload(c.data)]
                   ELSE [@ EXCEPT !.pc = "fetching", !.nRead = 1, !.nUp = 1]]
  /\ UNCHANGED <<svars, mvars, gvars, variant, envTimeout, now, files, lastDone>>

\* fetchBookingListDay(day) up to its first await.
StartFetchDay(r, day) ==
  /\ variant = "byDay"
  /\ req[r].pc = "idle"
  /\ LowestFree(r)
  /\ received < MaxRequests
  /\ received' = received + 1
  /\ LET store == readCache(files[CachePath]) IN
       req' = [req EXCEPT ![r] =
                 IF ReadThrows(store)
                   THEN [@ EXCEPT !.pc = "done", !.key = day, !.nRead = 1, !.result = Err]
                 ELSE IF DayHit(store, day)
                   THEN [@ EXCEPT !.pc = "done", !.key = day, !.src = "cache", !.nRead = 1,
                                  !.result = Payload(HitOf(store, day).data)]
                   ELSE [@ EXCEPT !.pc = "fetching", !.key = day, !.store = store,
                                  !.nRead = 1, !.nUp = 1]]
  /\ UNCHANGED <<svars, mvars, gvars, variant, envTimeout, now, files, lastDone>>

\* The upstream answered 2xx with a JSON body d: fetchData schedules
\* fs.writeFile (fire-and-forget) and returns; fetchData(req, res) has no
\* return statement.
UpstreamOkFetchData(r, d) ==
  /\ variant # "byDay"
  /\ req[r].pc = "fetching"
  /\ req' = [req EXCEPT ![r] =
               [@ EXCEPT !.pc = "done", !.src = "upstream", !.up = "ok",
                         !.result = IF variant = "reqres" THEN Undefined ELSE Payload(d),
                         !.nWrite = 1, !.w = "scheduled", !.rec = RecordObject(now, d),
                         !.waited = FALSE]]
  /\ UNCHANGED <<svars, mvars, gvars, variant, envTimeout, now, files, lastDone, received>>

\* The upstream answered 2xx with a JSON body d: fetchBookingListDay stores the
\* record in the store it read before the await and writes it with
\* fs.writeFileSync, which may fail (logged), before it returns.
UpstreamOkFetchDay(r, d) ==
  /\ variant = "byDay"
  /\ req[r].pc = "fetching"
  /\ IF StoreThrows(req[r].store)
       THEN /\ req' = [req EXCEPT ![r] =
                         [@ EXCEPT !.pc = "done", !.src = "upstream", !.up = "ok",
                                   !.result = Err, !.store = Missing]]
            /\ UNCHANGED <<files, lastDone>>
       ELSE \E ok \in BOOLEAN :
              LET store == StoreWith(req[r].store, req[r].key, d) IN
                /\ req' = [req EXCEPT ![r] =
                             [@ EXCEPT !.pc = "done", !.src = "upstream", !.up = "ok",
                                       !.result = Payload(d), !.nWrite = 1,
                                       !.w = IF ok THEN "done" ELSE "failed",
                                       !.rec = RecordObject(now, d), !.store = Missing,
                                       !.waited = TRUE]]
                /\ files' = IF ok THEN [files EXCEPT ![CachePath] = store] ELSE files
                /\ lastDone' = IF ok
                                 THEN [set |-> TRUE, key |-> req[r].key, ts |-> now, data |-> d]
                                 ELSE lastDone
  /\ UNCHANGED <<svars, mvars, gvars, variant, envTimeout, now, received>>

\* The upstream answered with a non-success status ("http") or with a body
\* that is not JSON ("badjson"): every snapshot throws.  (fetchData(req, res)
\* throws a ReferenceError: it reads `data` before its declaration.)
UpstreamFails(r, outcome) ==
  /\ req[r].pc = "fetching"
  /\ req' = [req EXCEPT ![r] = Failed(@, outcome, files[ReadPath])]
  /\ UNCHANGED <<svars, mvars, gvars, variant, envTimeout, now, files, lastDone, received>>

\* fs.writeFile: open (truncate), which may fail; then write and close.
WriteOpen(r) ==
  /\ req[r].w = "scheduled"
  /\ req' = [req EXCEPT ![r].w = "opened"]
  /\ files' = [files EXCEPT ![WritePath] = EmptyFile]
  /\ lastDone' = NoneDone
  /\ UNCHANGED <<svars, mvars, gvars, variant, envTimeout, now, received>>

WriteOpenFails(r) ==
  /\ req[r].w = "scheduled"
  /\ req' = [req EXCEPT ![r].w = "failed"]
  /\ UNCHANGED <<svars, mvars, gvars, variant, envTimeout, now, files, lastDone, received>>

WriteData(r) ==
  /\ req[r].w = "opened"
  /\ req' = [req EXCEPT ![r].w = "done"]
  /\ files' = [files EXCEPT ![WritePath] = Overlay(@, req[r].rec)]
  /\ lastDone' = IF \A q \in Reqs \ {r} : req[q].w # "opened"
                   THEN [set |-> TRUE, key |-> req[r].key,
                         ts |-> req[r].rec.ts, data |-> req[r].rec.data]
                   ELSE NoneDone
  /\ UNCHANGED <<svars, mvars, gvars, variant, envTimeout, now, received>>

\* The response is out and the write is over: the slot takes the next request.
NextRequest(r) ==
  /\ req[r].pc = "done"
  /\ req[r].w \notin {"scheduled", "opened"}
  /\ req' = [req EXCEPT ![r] = IdleReq]
  /\ UNCHANGED <<svars, mvars, gvars, variant, envTimeout, now, files, lastDone, received>>

\* ------------------------------------------------------------------ Spec
\* Timestamps a file found at start-up may carry: 0, past, present, future.
InitTimestamps == {k * MsPerSec : k \in 0..2}

InitContents ==
  {Missing, EmptyFile, Garbled(0), JsonNull, JsonPrim, EmptyObject}
  \cup {RecordObject(t, 1) : t \in InitTimestamps}

InitDayContents ==
  {Missing, EmptyFile, Garbled(0), JsonNull, JsonPrim, EmptyObject,
   [EmptyObject EXCEPT !.byDayKind = "prim"],
   [EmptyObject EXCEPT !.byDayKind = "map"],
   [EmptyObject EXCEPT !.byDayKind = "map",
                       !.byDay = [NoByDay EXCEPT !["2025-08-10"] = [NoEntry EXCEPT !.has = TRUE]]]}
  \cup {[EmptyObject EXCEPT !.byDayKind = "map",
                            !.byDay = [NoByDay EXCEPT !["2025-08-10"] = Entry(t, 1)]]
          : t \in InitTimestamps}

CacheInit ==
  /\ variant \in Variants
  /\ envTimeout \in EnvValues
  /\ now = MsPerSec
  /\ \E c \in (IF variant = "byDay" THEN InitDayContents ELSE InitContents) :
       files = [p \in Paths |-> IF p = ReadPath THEN c ELSE Missing]
  /\ req = [r \in Reqs |-> IdleReq]
  /\ lastDone = NoneDone
  /\ received = 0


\* ---------------------------------------------------------------- claims
\* The record a cache file holds for a key, as the spec's CacheStore.read sees
\* it: an object with a timestamp (under byDay[key] in the day-keyed cache).
HasRecord(c, k) ==
  IF variant = "byDay"
    THEN c.kind = "object" /\ c.byDayKind = "map" /\ c.byDay[k].has /\ c.byDay[k].hasTs
    ELSE c.kind = "object" /\ c.hasTs
RecTs(c, k) == IF variant = "byDay" THEN c.byDay[k].ts ELSE c.ts
RecData(c, k) == IF variant = "byDay" THEN c.byDay[k].data ELSE c.data

\* Request slot r receives a request in this step (the cache read step runs).
StartStep(r) == req[r].pc = "idle" /\ req'[r].pc # "idle"
ServedFromCache(rq, d) == rq.src = "cache" /\ rq.result = Payload(d) /\ rq.nUp = 0
NoWriteInFlight == \A r \in Reqs : req[r].w \notin {"scheduled", "opened"}

\* C1: a fetchData / fetchBookingListDay call (the snapshots the claim cites
\* and part_000's fetchData) is served from the cache, with the stored data and
\* no upstream call, iff a record for the key is present and
\* now - timestamp < timeout; in every other case it issues an upstream call.
C1_CacheHitIffFresh ==
  [][\A r \in Reqs :
       (StartStep(r) /\ variant \in {"index", "part0", "byDay"}) =>
         LET k == req'[r].key
             c == files[ReadPath]
             fresh == HasRecord(c, k) /\ now - RecTs(c, k) < timeoutMs
         IN  /\ fresh => ServedFromCache(req'[r], RecData(c, k))
             /\ ~fresh => req'[r].src # "cache" /\ req'[r].nUp = 1]_vars

\* C2: with the configured timeout equal to 0 (CACHE_TIMEOUT 0, unset or not
\* numeric) every call bypasses the cache and issues an upstream call, whatever
\* the cache file holds.
C2_ZeroTimeoutAlwaysFetches ==
  [][\A r \in Reqs :
       (StartStep(r) /\ timeoutMs = 0) => req'[r].src # "cache" /\ req'[r].nUp = 1]_vars

\* C3: after a call wrote the record {timestamp, data} of a successful upstream
\* fetch and that write has completed (no later write begun), the next call for
\* the same key made while now - timestamp < timeout is served that data from
\* the cache without an upstream call.
C3_WrittenRecordIsServed ==
  [][\A r \in Reqs :
       (/\ StartStep(r)
        /\ lastDone.set
        /\ req'[r].key = lastDone.key
        /\ now - lastDone.ts < timeoutMs)
       => ServedFromCache(req'[r], lastDone.data)]_vars

\* C4: whenever the upstream call of a fetchData / fetchBookingListDay call
\* fails (non-success status, or a body that is not JSON) the call fails with an
\* error; it never returns data, not even when a record for the key is cached.
C4_UpstreamFailurePropagates ==
  \A r \in Reqs : req[r].up \in {"http", "badjson"} => req[r].result = Err

\* C4 witness: an upstream call failed (each way) while the cache file held a
\* record for the key, and the call is over.
C4_Witness ==
  \E r \in Reqs, q \in Reqs :
    /\ req[r].up = "http" /\ req[r].pc = "done"
    /\ req[q].up = "badjson" /\ req[q].pc = "done"
    /\ HasRecord(files[ReadPath], req[r].key)
    /\ HasRecord(files[ReadPath], req[q].key)

\* C5: for every successful upstream fetch the call returns the fetched data,
\* whether the cache write succeeds or fails, and the response is produced
\* without waiting for the write to finish.
C5_WriteNeverAffectsResponse ==
  \A r \in Reqs :
    req[r].up = "ok" => req[r].result.tag = "data" /\ ~req[r].waited

\* C6: for every content of the cache file that is not a cache record (missing,
\* empty, not valid JSON, null, a number or string, an object without the
\* expected fields) the cache read step is a miss: no error is raised and the
\* call proceeds to the upstream fetch.
C6_CorruptCacheIsMiss ==
  [][\A r \in Reqs :
       (StartStep(r) /\ ~HasRecord(files[ReadPath], req'[r].key))
       => req'[r].pc = "fetching" /\ req'[r].nUp = 1 /\ req'[r].result = NoResult]_vars

\* C7: each request triggers at most one upstream call, at most one cache read
\* and at most one cache write, under any interleaving with other requests.
C7_AtMostOneOfEach ==
  \A r \in Reqs : req[r].nUp <= 1 /\ req[r].nRead <= 1 /\ req[r].nWrite <= 1

\* C7 witness: two requests in flight at once, each of which has read the
\* cache, called the upstream and scheduled its cache write.
C7_Witness ==
  \E r \in Reqs, q \in Reqs :
    /\ r # q
    /\ \A x \in {r, q} :
         req[x].nUp = 1 /\ req[x].nRead = 1 /\ req[x].nWrite = 1 /\ req[x].w = "scheduled"

\* C8 as claimed: once the writes of requests for one key are all over, the
\* cache holds exactly the complete record of the write applied last: never a
\* mixture of two records, never an older record.
C8_LastWriteWinsWhole ==
  (NoWriteInFlight /\ lastDone.set) =>
    /\ HasRecord(files[WritePath], lastDone.key)
    /\ RecTs(files[WritePath], lastDone.key) = lastDone.ts
    /\ RecData(files[WritePath], lastDone.key) = lastDone.data

\* C8 amended: once the writes of requests for one key are all over, the cache
\* holds either the complete record of the write applied last, or, in the
\* single-record caches whose fs.writeFile calls are not ordered with each
\* other, bytes that are not valid JSON (a shorter record followed by what is
\* left of a longer one); never a complete record other than the last one.
C8_LastWriteWinsOrGarbled ==
  (NoWriteInFlight /\ lastDone.set) =>
    \/ C8_LastWriteWinsWhole
    \/ variant # "byDay" /\ files[WritePath].kind = "garbled"

\* C8 witness: two requests for one key overlapped on a stale cache (with a
\* positive timeout the second would otherwise have been served the first's
\* record), fetched different payloads, both writes are over and the cache
\* holds the record written last.
C8_Witness ==
  \E r \in Reqs, q \in Reqs :
    /\ r # q
    /\ variant \in {"index", "byDay"}
    /\ timeoutMs > 0
    /\ \A x \in {r, q} : req[x].src = "upstream" /\ req[x].w = "done"
    /\ req[r].key = req[q].key
    /\ req[r].rec.ts = req[q].rec.ts
    /\ req[r].rec.data # req[q].rec.data
    /\ lastDone.set
    /\ C8_LastWriteWinsWhole


\* C19: in the day-keyed cache a record stored for a day is never lost to a
\* write for another day: once the file holds a record for day D, every later
\* content of the file holds a record for D.
C19_DayRecordNeverLost ==
  [][variant = "byDay" =>
       \A d \in Days :
         HasRecord(files[CachePath], d) => HasRecord(files'[CachePath], d)]_vars

\* C20: in the single-record cache the timestamp of the record on disk never
\* decreases: no step replaces a record on disk (with a timestamp not ahead of
\* the clock, so one a fetch could have stored) by a record with a smaller
\* timestamp, whatever the order in which the asynchronous writes complete.
C20_TimestampNeverDecreases ==
  [][(/\ variant # "byDay"
      /\ HasRecord(files[WritePath], SingleKey)
      /\ RecTs(files[WritePath], SingleKey) <= now
      /\ HasRecord(files'[WritePath], SingleKey))
     => RecTs(files'[WritePath], SingleKey) >= RecTs(files[WritePath], SingleKey)]_vars

\* The call in slot rq is over and ended in an upstream failure, or was served
\* from the cache.
EndedWithoutFetch(rq) ==
  rq.pc = "done" /\ (rq.up \in {"http", "badjson"} \/ rq.src = "cache")

\* C21: a fetchData / fetchBookingListDay call that ends in an upstream failure
\* (non-success status or unparseable body), or that is served from the cache,
\* schedules and performs no cache write, and the step in which it ends leaves
\* the cache files as they were.
C21_NoWriteOnFailureOrHit ==
  [][\A r \in Reqs :
       EndedWithoutFetch(req'[r]) =>
         /\ req'[r].nWrite = 0
         /\ req'[r].w = "none"
         /\ (req[r].pc # "done" => files' = files)]_vars

\* C21 witness: one call was served from the cache and another ended in an
\* upstream failure, both are over, and the cache file holds a record.
C21_Witness ==
  \E r \in Reqs, q \in Reqs :
    /\ req[r].pc = "done" /\ req[r].src = "cache"
    /\ req[q].pc = "done" /\ req[q].up \in {"http", "badjson"}
    /\ HasRecord(files[ReadPath], req[r].key)


(***************************************************************************)
(* Part 2 (specification SpecStats): the aggregators.  A raw payload is    *)
(* built row by row from small sets of field values and the aggregators    *)
(* are applied to it.  Strings are sequences of atoms: " " is white space, *)
(* every other atom stands for the run of non-blank characters it spells.  *)
(*                                                                         *)
(*   computeDailyStats      (Bookings tree)   src/unnamed/part_000 109-213 *)
(*   computeDailyStats      (BookingList)     src/unnamed/part_000 446-527 *)
(*   GET /api               (all-time stats)  src/server/index.js 351-462  *)
(***************************************************************************)
MaxTrans == 2     \* BookingTran entries (or BookingList entries) in a payload
MaxRows == 2      \* RentalInfo rows in a payload
MaxCancels == 1   \* CancelReservation entries in a payload


\* ----------------------------------------------------- JavaScript values
Undef == [t |-> "undefined", s |-> <<>>, n |-> 0]
Str(s) == [t |-> "string", s |-> s, n |-> 0]
Num(n) == [t |-> "number", s |-> <<>>, n |-> n]

Truthy(v) ==
  CASE v.t = "string" -> v.s # <<>>
    [] v.t = "number" -> v.n # 0
    [] OTHER -> FALSE

Space == " "
RECURSIVE TrimStart(_)
TrimStart(s) == IF s # <<>> /\ Head(s) = Space THEN TrimStart(Tail(s)) ELSE s
RECURSIVE TrimEnd(_)
TrimEnd(s) ==
  IF s # <<>> /\ s[Len(s)] = Space THEN TrimEnd(SubSeq(s, 1, Len(s) - 1)) ELSE s
\* String.prototype.trim
Trim(s) == TrimEnd(TrimStart(s))

\* String.prototype.toLowerCase, atom by atom
LowerAtom(a) ==
  CASE a = "Booking.com" -> "booking.com"
    [] a = "EG" -> "eg"
    [] OTHER -> a
ToLowerCase(s) == [i \in DOMAIN s |-> LowerAtom(s[i])]

Unknown == <<"unknown">>

\* normKey: "unknown" unless v is a string with a non-blank character, else
\* the trimmed, lower-cased string.
normKey(v) ==
  IF v.t # "string" THEN Unknown
  ELSE IF Trim(v.s) = <<>> THEN Unknown ELSE ToLowerCase(Trim(v.s))

\* (v || "unknown").toString().trim() || "unknown"   (v a string or undefined)
ListKey(v) ==
  IF ~Truthy(v) THEN Unknown
  ELSE IF Trim(v.s) = <<>> THEN Unknown ELSE Trim(v.s)

\* Number(v) || 0   (v a number or undefined)
NumberOrZero(v) == IF v.t = "number" THEN v.n ELSE 0

\* (v || "").trim(): a truthy value that is not a string has no trim method.
TrimThrows(v) == Truthy(v) /\ v.t # "string"
TrimOrEmpty(v) == IF Truthy(v) THEN Trim(v.s) ELSE <<>>

\* ------------------------------------------------------------- quotients
RECURSIVE GCD(_, _)
GCD(a, b) == IF b = 0 THEN a ELSE GCD(b, a % b)

\* The quotient a / b (b > 0) in lowest terms; 0 is 0/1.
Zero == [num |-> 0, den |-> 1]
Quot(a, b) == [num |-> a \div GCD(a, b), den |-> b \div GCD(a, b)]

\* nights === 0 ? 0 : revenue / nights
AdrRounded(revenue, nights) ==
  IF nights = 0 THEN Zero ELSE [num |-> revenue \div nights, den |-> 1]
AdrOf(revenue, nights) ==
  IF nights = 0 THEN Zero ELSE Quot(revenue, nights)

\* ---------------------------------------------------------------- groups
\* sources = {} and nationalities = {} inherit from Object.prototype: for
\* these keys groups[k] is an inherited, truthy object although groups has no
\* such own property.
InheritedKeys == {<<"constructor">>, <<"__proto__">>}

NewGroup == [reservationCount |-> 0, revenue |-> 0, nights |-> 0, ADR |-> Zero]

\* if (!groups[k]) groups[k] = {...}; groups[k].revenue += rent; groups[k].nights += n
\* (for an inherited key the sums go to the inherited object, not to groups)
AddToGroup(groups, k, rent, n) ==
  IF k \in DOMAIN groups
    THEN [groups EXCEPT ![k].revenue = @ + rent, ![k].nights = @ + n]
  ELSE IF k \in InheritedKeys THEN groups
  ELSE groups @@ (k :> [NewGroup EXCEPT !.revenue = rent, !.nights = n])

\* groups[k].reservationCount += 1
CountInGroup(groups, k) ==
  IF k \in DOMAIN groups THEN [groups EXCEPT ![k].reservationCount = @ + 1] ELSE groups

\* groups["__proto__"].revenue += rent creates an enumerable property on
\* Object.prototype itself.
Pollutes(groups, k) == k \notin DOMAIN groups /\ k = <<"__proto__">>

\* for (const k in groups) { s = groups[k]; s.ADR = ... }
WithADR(groups) ==
  [k \in DOMAIN groups |->
     [groups[k] EXCEPT !.ADR = AdrOf(groups[k].revenue, groups[k].nights)]]


\* ----------------------------------------------- computeDailyStats (tree)
EmptyAcc ==
  [reservationCount |-> 0, revenue |-> 0, nights |-> 0, sources |-> <<>>,
   nationalities |-> <<>>, hadDayRow |-> FALSE, polluted |-> FALSE, threw |-> FALSE]

\* for (const ri of rental): a row whose trimmed EffectiveDate is the day adds
\* its rent and one night to the total and to the booking's two groups.
RECURSIVE DailyRows(_, _, _, _)
DailyRows(rental, b, day, acc) ==
  IF rental = <<>> \/ acc.threw THEN acc
  ELSE
    LET ri == Head(rental) IN
    IF TrimThrows(ri.EffectiveDate) THEN [acc EXCEPT !.threw = TRUE]
    ELSE IF TrimOrEmpty(ri.EffectiveDate) # day THEN DailyRows(Tail(rental), b, day, acc)
    ELSE
      LET rent == NumberOrZero(ri.Rent)
          sourceKey == normKey(b.Source)
          natKey == normKey(b.Nationality)
      IN  DailyRows(Tail(rental), b, day,
            [acc EXCEPT !.hadDayRow = TRUE,
                        !.revenue = @ + rent,
                        !.nights = @ + 1,
                        !.sources = AddToGroup(@, sourceKey, rent, 1),
                        !.nationalities = AddToGroup(@, natKey, rent, 1),
                        !.polluted = @ \/ Pollutes(acc.sources, sourceKey)
                                       \/ Pollutes(acc.nationalities, natKey)])

\* for (const b of trans): the booking counts once if it had a row that day.
RECURSIVE DailyTrans(_, _, _)
DailyTrans(trans, day, acc) ==
  IF trans = <<>> \/ acc.threw THEN acc
  ELSE
    LET b == Head(trans)
        a == DailyRows(b.RentalInfo, b, day, [acc EXCEPT !.hadDayRow = FALSE])
    IN  DailyTrans(Tail(trans), day,
          IF a.hadDayRow /\ ~a.threw
            THEN [a EXCEPT !.reservationCount = @ + 1,
                           !.sources = CountInGroup(@, normKey(b.Source)),
                           !.nationalities = CountInGroup(@, normKey(b.Nationality))]
            ELSE a)

\* for (const r of Reservation)
RECURSIVE DailyReservations(_, _, _)
DailyReservations(Reservation, day, acc) ==
  IF Reservation = <<>> \/ acc.threw THEN acc
  ELSE DailyReservations(Tail(Reservation), day, DailyTrans(Head(Reservation), day, acc))

\* (c?.Canceldatetime || "").split(" ")[0]
RECURSIVE BeforeFirstSpace(_)
BeforeFirstSpace(s) ==
  IF s = <<>> \/ Head(s) = Space THEN <<>> ELSE <<Head(s)>> \o BeforeFirstSpace(Tail(s))

RECURSIVE CountCancels(_, _)
CountCancels(cancels, day) ==
  IF cancels = <<>> THEN 0
  ELSE (IF BeforeFirstSpace(IF Truthy(Head(cancels)) THEN Head(cancels).s ELSE <<>>) = day
          THEN 1 ELSE 0) + CountCancels(Tail(cancels), day)

Threw == [threw |-> TRUE, polluted |-> FALSE, all |-> <<>>, sources |-> <<>>, nationalities |-> <<>>]

\* The stats object built from the sums.  The two for-in loops also visit the
\* enumerable properties Object.prototype has acquired: their values are
\* numbers, and setting .ADR on a number throws in an ES module.
StatsOf(acc, day, cancellations, polluted0) ==
  IF acc.threw \/ acc.polluted \/ polluted0
    THEN [Threw EXCEPT !.polluted = acc.polluted]
    ELSE [threw |-> FALSE, polluted |-> FALSE,
          all |-> [Day |-> day,
                   Reservations |-> acc.reservationCount,
                   Revenue |-> acc.revenue,
                   Nights |-> acc.nights,
                   ADR |-> AdrOf(acc.revenue, acc.nights),
                   Cancellations |-> cancellations],
          sources |-> WithADR(acc.sources),
          nationalities |-> WithADR(acc.nationalities)]

computeDailyStats(data, day, polluted0) ==
  StatsOf(DailyReservations(data.Reservation, day, EmptyAcc), day,
          CountCancels(data.CancelReservation, day), polluted0)

\* ---------------------------------------- computeDailyStats (BookingList)
\* for (const b of list): a booking arriving on the day counts once, with its
\* NoOfNights and DueAmount, in the total and in its two groups.
RECURSIVE ListBookings(_, _, _)
ListBookings(list, day, acc) ==
  IF list = <<>> \/ acc.threw THEN acc
  ELSE
    LET b == Head(list) IN
    IF TrimThrows(b.ArrivalDate) THEN [acc EXCEPT !.threw = TRUE]
    ELSE IF TrimOrEmpty(b.ArrivalDate) # day THEN ListBookings(Tail(list), day, acc)
    ELSE
      LET nNights == NumberOrZero(b.NoOfNights)
          due == NumberOrZero(b.DueAmount)
          sKey == ListKey(b.Source)
          nKey == ListKey(IF Truthy(b.Country) THEN b.Country ELSE b.Nationality)
          src == AddToGroup(acc.sources, sKey, due, nNights)
          nat == AddToGroup(acc.nationalities, nKey, due, nNights)
      IN  ListBookings(Tail(list), day,
            [acc EXCEPT !.reservationCount = @ + 1,
                        !.nights = @ + nNights,
                        !.revenue = @ + due,
                        !.sources = CountInGroup(src, sKey),
                        !.nationalities = CountInGroup(nat, nKey),
                        !.polluted = @ \/ Pollutes(acc.sources, sKey)
                                       \/ Pollutes(acc.nationalities, nKey)])

\* if ((b?.CancelDate || "").trim()) cancelationCount += 1, for bookings of the day
RECURSIVE ListCancels(_, _)
ListCancels(list, day) ==
  IF list = <<>> THEN 0
  ELSE (IF TrimOrEmpty(Head(list).ArrivalDate) = day /\ TrimOrEmpty(Head(list).CancelDate) # <<>>
          THEN 1 ELSE 0) + ListCancels(Tail(list), day)

computeDailyStatsList(list, day, polluted0) ==
  StatsOf(ListBookings(list, day, EmptyAcc), day, ListCancels(list, day), polluted0)


\* -------------------------------------------------------------- GET /api
\* for (const b of trans): every booking counts, with TotalAmountBeforeTax and
\* the number of its RentalInfo rows, in the total and in its two groups.
RECURSIVE ApiTrans(_, _)
ApiTrans(trans, acc) ==
  IF trans = <<>> THEN acc
  ELSE
    LET b == Head(trans)
        amount == NumberOrZero(b.TotalAmountBeforeTax)
        n == Len(b.RentalInfo)
        sourceKey == normKey(b.Source)
        natKey == normKey(b.Nationality)
        src == AddToGroup(acc.sources, sourceKey, amount, n)
        nat == AddToGroup(acc.nationalities, natKey, amount, n)
    IN  ApiTrans(Tail(trans),
          [acc EXCEPT !.reservationCount = @ + 1,
                      !.revenue = @ + amount,
                      !.nights = @ + n,
                      !.sources = CountInGroup(src, sourceKey),
                      !.nationalities = CountInGroup(nat, natKey),
                      !.polluted = @ \/ Pollutes(acc.sources, sourceKey)
                                     \/ Pollutes(acc.nationalities, natKey)])

RECURSIVE ApiReservations(_, _)
ApiReservations(Reservation, acc) ==
  IF Reservation = <<>> THEN acc
  ELSE ApiReservations(Tail(Reservation), ApiTrans(Head(Reservation), acc))

\* The response of GET /api; the ADR loops run only when there is a reservation.
apiStats(data, today, polluted0) ==
  StatsOf(ApiReservations(data.Reservation, EmptyAcc), today,
          CountCancels(data.CancelReservation, today),
          polluted0 /\ data.Reservation # <<>>)

\* --------------------------------------------------------------- payloads
DayA == <<"2025-08", "-", "10">>
DayB == <<"2025-08", "-", "11">>
TargetDays == {DayA, DayB}

SourceValues ==
  {Undef, Str(<<"Booking.com">>), Str(<<Space, "booking.com", Space>>),
   Str(<<"constructor">>), Str(<<"__proto__">>)}
NationalityValues == {Undef, Str(<<"EG">>)}
AmountValues == IF shape = "api" THEN {Undef, Num(150)} ELSE {Undef}

Row(date, rent) == [EffectiveDate |-> date, Rent |-> rent]
RowValues ==
  IF shape = "api"
    THEN {Row(Str(DayA), Num(100))}
    ELSE {Row(Str(DayA), Num(100)), Row(Str(<<Space>> \o DayA), Num(25)),
          Row(Str(DayB), Num(100)), Row(Str(DayA), Undef)}

CancelValues == {Str(DayA \o <<Space, "14:00">>), Str(DayB \o <<Space, "09:30">>)}

Booking(arrival, n, due, source, cancel) ==
  [ArrivalDate |-> arrival, NoOfNights |-> n, DueAmount |-> due, Source |-> source,
   Country |-> Undef, Nationality |-> Str(<<"EG">>), CancelDate |-> cancel]
BookingValues ==
  {Booking(a, n, due, src, c) :
     a \in {Str(DayA), Str(DayB)}, n \in {Undef, Num(2)}, due \in {Num(25)},
     src \in {Undef, Str(<<"Booking.com">>), Str(<<"constructor">>)},
     c \in {Str(<<>>), Str(DayA)}}

NoOut == [threw |-> FALSE, polluted |-> FALSE, all |-> <<>>, sources |-> <<>>, nationalities |-> <<>>]
EmptyTree == [Reservation |-> <<>>, CancelReservation |-> <<>>]

RECURSIVE CountTrans(_)
CountTrans(Reservation) ==
  IF Reservation = <<>> THEN 0 ELSE Len(Head(Reservation)) + CountTrans(Tail(Reservation))

RECURSIVE CountRowsOf(_)
CountRowsOf(trans) ==
  IF trans = <<>> THEN 0 ELSE Len(Head(trans).RentalInfo) + CountRowsOf(Tail(trans))
RECURSIVE CountRows(_)
CountRows(Reservation) ==
  IF Reservation = <<>> THEN 0 ELSE CountRowsOf(Head(Reservation)) + CountRows(Tail(Reservation))

Building == out = NoOut

\* ------------------------------------------------------ SpecStats actions
AddReservation ==
  /\ Building /\ shape \in {"tree", "api"}
  /\ Len(tree.Reservation) < MaxTrans
  /\ tree' = [tree EXCEPT !.Reservation = Append(@, <<>>)]
  /\ UNCHANGED <<vars, mvars, gvars, shape, blist, out, protoPolluted>>

AddTran(source, nat, amount) ==
  /\ Building /\ shape \in {"tree", "api"}
  /\ tree.Reservation # <<>>
  /\ CountTrans(tree.Reservation) < MaxTrans
  /\ LET i == Len(tree.Reservation) IN
       tree' = [tree EXCEPT !.Reservation[i] =
                  Append(@, [Source |-> source, Nationality |-> nat,
                             TotalAmountBeforeTax |-> amount, RentalInfo |-> <<>>])]
  /\ UNCHANGED <<vars, mvars, gvars, shape, blist, out, protoPolluted>>

AddRow(row) ==
  /\ Building /\ shape \in {"tree", "api"}
  /\ tree.Reservation # <<>>
  /\ LET i == Len(tree.Reservation)
         j == Len(tree.Reservation[i])
     IN  /\ j > 0
         /\ CountRows(tree.Reservation) < MaxRows
         /\ tree' = [tree EXCEPT !.Reservation[i][j].RentalInfo = Append(@, row)]
  /\ UNCHANGED <<vars, mvars, gvars, shape, blist, out, protoPolluted>>

AddCancel(dt) ==
  /\ Building /\ shape \in {"tree", "api"}
  /\ tree.Reservation = <<>>
  /\ Len(tree.CancelReservation) < MaxCancels
  /\ tree' = [tree EXCEPT !.CancelReservation = Append(@, dt)]
  /\ UNCHANGED <<vars, mvars, gvars, shape, blist, out, protoPolluted>>

AddBooking(b) ==
  /\ Building /\ shape = "list"
  /\ Len(blist) < MaxTrans
  /\ blist' = Append(blist, b)
  /\ UNCHANGED <<vars, mvars, gvars, shape, tree, out, protoPolluted>>

ComputeDaily(day) ==
  /\ shape = "tree"
  /\ out' = computeDailyStats(tree, day, protoPolluted)
  /\ protoPolluted' = (protoPolluted \/ out'.polluted)
  /\ UNCHANGED <<vars, mvars, gvars, shape, tree, blist>>

ComputeDailyList(day) ==
  /\ shape = "list"
  /\ out' = computeDailyStatsList(blist, day, protoPolluted)
  /\ protoPolluted' = (protoPolluted \/ out'.polluted)
  /\ UNCHANGED <<vars, mvars, gvars, shape, tree, blist>>

ComputeApi(today) ==
  /\ shape = "api"
  /\ out' = apiStats(tree, today, protoPolluted)
  /\ protoPolluted' = (protoPolluted \/ out'.polluted)
  /\ UNCHANGED <<vars, mvars, gvars, shape, tree, blist>>

\* ------------------------------------------------- claims on the aggregators
Computed == out # NoOut /\ ~out.threw

\* ADR * nights = revenue, stated on the quotient in lowest terms
IsRevenuePerNight(adr, revenue, nights) ==
  IF nights = 0 THEN adr = Zero ELSE adr.num * nights = revenue * adr.den

RECURSIVE SumNights(_, _)
SumNights(groups, keys) ==
  IF keys = {} THEN 0
  ELSE LET k == CHOOSE x \in keys : TRUE
       IN  groups[k].nights + SumNights(groups, keys \ {k})

\* C9: in every output of the daily aggregators (and of GET /api) the ADR of
\* the "all" total, of every source group and of every nationality group is
\* that entry's revenue divided by its nights when nights > 0, and 0 when
\* nights = 0.
C9_AdrIsRevenuePerNight ==
  Computed =>
    /\ IsRevenuePerNight(out.all.ADR, out.all.Revenue, out.all.Nights)
    /\ \A k \in DOMAIN out.sources :
         IsRevenuePerNight(out.sources[k].ADR, out.sources[k].revenue, out.sources[k].nights)
    /\ \A k \in DOMAIN out.nationalities :
         IsRevenuePerNight(out.nationalities[k].ADR, out.nationalities[k].revenue,
                           out.nationalities[k].nights)

\* C9 witness: an output with a source group that has revenue but no nights
\* (ADR 0) next to a source group whose ADR is not a whole number.
C9_Witness ==
  /\ Computed
  /\ out.all.Nights > 0
  /\ \E k \in DOMAIN out.sources :
       out.sources[k].nights = 0 /\ out.sources[k].revenue > 0 /\ out.sources[k].ADR = Zero
  /\ \E k \in DOMAIN out.sources :
       out.sources[k].nights > 0 /\ out.sources[k].ADR.den > 1

\* C10: in every output of computeDailyStats the nights of the source groups
\* add up to all.Nights, and so do the nights of the nationality groups.
C10_GroupNightsSumToAll ==
  (Computed /\ shape \in {"tree", "list"}) =>
    /\ SumNights(out.sources, DOMAIN out.sources) = out.all.Nights
    /\ SumNights(out.nationalities, DOMAIN out.nationalities) = out.all.Nights


\* The BookingTran entries of a payload, in order
RECURSIVE AllTrans(_)
AllTrans(Reservation) ==
  IF Reservation = <<>> THEN <<>> ELSE Head(Reservation) \o AllTrans(Tail(Reservation))

\* Rows of booking b dated on the day, and the sum of their rents
RowsOn(b, day) ==
  {i \in DOMAIN b.RentalInfo :
     b.RentalInfo[i].EffectiveDate.t = "string" /\ Trim(b.RentalInfo[i].EffectiveDate.s) = day}
RECURSIVE RentOver(_, _)
RentOver(b, rows) ==
  IF rows = {} THEN 0
  ELSE LET i == CHOOSE x \in rows : TRUE
       IN  (IF b.RentalInfo[i].Rent.t = "number" THEN b.RentalInfo[i].Rent.n ELSE 0)
           + RentOver(b, rows \ {i})
RECURSIVE NightsOver(_, _, _)
NightsOver(T, js, day) ==
  IF js = {} THEN 0
  ELSE LET j == CHOOSE x \in js : TRUE
       IN  Cardinality(RowsOn(T[j], day)) + NightsOver(T, js \ {j}, day)
RECURSIVE RevenueOver(_, _, _)
RevenueOver(T, js, day) ==
  IF js = {} THEN 0
  ELSE LET j == CHOOSE x \in js : TRUE
       IN  RentOver(T[j], RowsOn(T[j], day)) + RevenueOver(T, js \ {j}, day)

\* The totals of the day: bookings with a row on the day, rows, rents
TotalsAre(T, day) ==
  /\ out.all.Reservations = Cardinality({j \in DOMAIN T : RowsOn(T[j], day) # {}})
  /\ out.all.Nights = NightsOver(T, DOMAIN T, day)
  /\ out.all.Revenue = RevenueOver(T, DOMAIN T, day)

\* A booking with a row on the day is counted once in the group of its key
CountedInGroup(T, day, groups, KeyOf(_)) ==
  \A j \in DOMAIN T :
    RowsOn(T[j], day) # {} =>
      /\ KeyOf(T[j]) \in DOMAIN groups
      /\ groups[KeyOf(T[j])].reservationCount =
           Cardinality({i \in DOMAIN T : KeyOf(T[i]) = KeyOf(T[j]) /\ RowsOn(T[i], day) # {}})

\* C11: computeDailyStats counts a booking transaction once toward
\* all.Reservations, and once toward the reservationCount of its source group
\* and of its nationality group, exactly when one of its rows is dated on the
\* day; Nights grows by 1 and Revenue by the rent for each such row.
C11_CountedOncePerMatchingBooking ==
  (Computed /\ shape = "tree") =>
    LET T == AllTrans(tree.Reservation)
        day == out.all.Day
        SourceOf(b) == normKey(b.Source)
        NatOf(b) == normKey(b.Nationality)
    IN  /\ TotalsAre(T, day)
        /\ CountedInGroup(T, day, out.sources, SourceOf)
        /\ CountedInGroup(T, day, out.nationalities, NatOf)

\* The key the specification gives a field value: lower-cased and trimmed,
\* "unknown" for a value that is missing, not a string, empty or blank.
NormalizedKey(v) ==
  IF v.t = "string" /\ Trim(v.s) # <<>> THEN ToLowerCase(Trim(v.s)) ELSE Unknown

\* The bookings an aggregator counts on the day of its output
CountedBookings ==
  CASE shape = "tree" ->
         LET T == AllTrans(tree.Reservation)
         IN  {T[j] : j \in {i \in DOMAIN T : RowsOn(T[i], out.all.Day) # {}}}
    [] shape = "api" ->
         LET T == AllTrans(tree.Reservation) IN {T[j] : j \in DOMAIN T}
    [] OTHER ->
         {blist[j] : j \in {i \in DOMAIN blist :
                              /\ blist[i].ArrivalDate.t = "string"
                              /\ Trim(blist[i].ArrivalDate.s) = out.all.Day}}

NationalityField(b) ==
  IF shape = "list" /\ Truthy(b.Country) THEN b.Country ELSE b.Nationality

\* C12: every counted booking is accumulated under the lower-cased, trimmed
\* value of its source and of its nationality, and under "unknown" when the
\* value is empty, blank, missing or not a string.
C12_GroupKeyIsNormalized ==
  Computed =>
    \A b \in CountedBookings :
      /\ NormalizedKey(b.Source) \in DOMAIN out.sources
      /\ NormalizedKey(NationalityField(b)) \in DOMAIN out.nationalities


\* The date part of a cancellation timestamp: what precedes its first space
DatePart(v) ==
  IF v.t # "string" THEN <<>>
  ELSE LET blanks == {i \in DOMAIN v.s : v.s[i] = Space}
           n == IF blanks = {} THEN Len(v.s)
                ELSE (CHOOSE i \in blanks : \A j \in blanks : i <= j) - 1
       IN  SubSeq(v.s, 1, n)

\* The cancellation timestamps of the payload
CancelStamps ==
  IF shape = "list"
    THEN [i \in DOMAIN blist |-> blist[i].CancelDate]
    ELSE tree.CancelReservation

\* C13: all.Cancellations is the number of cancellation records whose date
\* part is the target day, whatever the reservation records are.
C13_CancellationsCountedByDate ==
  Computed =>
    out.all.Cancellations =
      Cardinality({i \in DOMAIN CancelStamps : DatePart(CancelStamps[i]) = out.all.Day})


StatsIdle ==
  /\ shape = "tree"
  /\ tree = EmptyTree
  /\ blist = <<>>
  /\ out = NoOut
  /\ protoPolluted = FALSE

CacheIdle ==
  /\ variant = "index"
  /\ envTimeout = [set |-> FALSE, numeric |-> FALSE, v |-> 0]
  /\ now = MsPerSec
  /\ files = [p \in Paths |-> Missing]
  /\ req = [r \in Reqs |-> IdleReq]
  /\ lastDone = NoneDone
  /\ received = 0



\* ------------------------------------------------------------------ Spec

(***************************************************************************)
(* Part 3 (specification SpecMonth): computeMonthlyCalendar,               *)
(* src/unnamed/part_000 218-290.  In an EffectiveDate the atom ThisMonth   *)
(* spells the requested month "YYYY-MM" and OtherMonth another month; the  *)
(* atom after the "-" spells characters 8 and 9 of the string.  The        *)
(* payloads carry no RoomTypeName, so every room is named "Unknown Room    *)
(* Type".  Rents are whole numbers, so sums are exact.                     *)
(***************************************************************************)
MaxMonthTrans == 2   \* BookingTran entries in a payload
MaxMonthRows == 2    \* RentalInfo rows in a payload

ThisMonth == "YYYY-MM"
OtherMonth == "ZZZZ-MM"

\* new Date(Y, M, 0).getDate(): a year 0..99 is taken as 1900 + Y, and day 0
\* of month index M is the last day of the month before it.
JSYear(Y) == IF Y \in 0..99 THEN 1900 + Y ELSE Y
JSLeap(y) == (y % 4 = 0 /\ y % 100 # 0) \/ y % 400 = 0
JSMonthLength(y, m) ==
  CASE m = 2 -> IF JSLeap(y) THEN 29 ELSE 28
    [] m \in {4, 6, 9, 11} -> 30
    [] OTHER -> 31
daysInMonthOf(Y, M) ==
  IF M = 0 THEN JSMonthLength(JSYear(Y) - 1, 12)
  ELSE JSMonthLength(JSYear(Y) + ((M - 1) \div 12), ((M - 1) % 12) + 1)

\* eff.startsWith(month + "-")
StartsWithMonth(eff) == Len(eff) >= 2 /\ eff[1] = ThisMonth /\ eff[2] = "-"

\* Number(eff.slice(8, 10)): [nan, n]
NaN == [nan |-> TRUE, n |-> 0]
DayNumber(eff) ==
  IF Len(eff) < 3 THEN [nan |-> FALSE, n |-> 0]
  ELSE CASE eff[3] = "10" -> [nan |-> FALSE, n |-> 10]
         [] eff[3] = "29" -> [nan |-> FALSE, n |-> 29]
         [] eff[3] = "32" -> [nan |-> FALSE, n |-> 32]
         [] OTHER -> NaN

\* ri?.RoomTypeCode || b?.RoomTypeCode || "unknown"
RoomCode(ri, b) ==
  IF Truthy(ri.RoomTypeCode) THEN ri.RoomTypeCode.s
  ELSE IF Truthy(b.RoomTypeCode) THEN b.RoomTypeCode.s
  ELSE Unknown

NewRoom(days) ==
  [days |-> [d \in 1..days |-> [booked |-> FALSE, rent |-> 0]],
   totals |-> [nights |-> 0, revenue |-> 0]]

\* cell.booked = true; cell.rent += rent; totals.nights += 1; totals.revenue += rent
MarkRoom(room, d, rent) ==
  [room EXCEPT !.days[d] = [booked |-> TRUE, rent |-> @.rent + rent],
               !.totals = [nights |-> @.nights + 1, revenue |-> @.revenue + rent]]

\* totalsByDay[dnum - 1].nights += 1; totalsByDay[dnum - 1].revenue += rent
AddToDayNoRevenue(totalsByDay, d, rent) ==
  [totalsByDay EXCEPT ![d].nights = @ + 1]
AddToDay(totalsByDay, d, rent) ==
  [totalsByDay EXCEPT ![d] = [revenue |-> @.revenue + rent, nights |-> @.nights + 1]]

EmptyCalendar(days) ==
  [threw |-> FALSE, rooms |-> <<>>,
   totalsByDay |-> [d \in 1..days |-> [revenue |-> 0, nights |-> 0]]]

\* One pass of for (const ri of rental).  The room entry is created before
\* the day is checked; a code that names an inherited property of rooms = {}
\* gets no entry, and reading .days[dnum - 1] of the inherited value throws.
MonthRow(ri, b, days, acc) ==
  IF TrimThrows(ri.EffectiveDate) THEN [acc EXCEPT !.threw = TRUE]
  ELSE
    LET eff == TrimOrEmpty(ri.EffectiveDate) IN
    IF ~StartsWithMonth(eff) THEN acc
    ELSE
      LET code == RoomCode(ri, b)
          rooms == IF code \in DOMAIN acc.rooms \/ code \in InheritedKeys
                     THEN acc.rooms
                     ELSE acc.rooms @@ (code :> NewRoom(days))
          dnum == DayNumber(eff)
          rent == NumberOrZero(ri.Rent)
      IN  IF dnum.nan \/ dnum.n < 1 \/ dnum.n > days THEN [acc EXCEPT !.rooms = rooms]
          ELSE IF code \notin DOMAIN rooms THEN [acc EXCEPT !.threw = TRUE]
          ELSE [acc EXCEPT !.rooms = [rooms EXCEPT ![code] = MarkRoom(@, dnum.n, rent)],
                           !.totalsByDay = AddToDay(@, dnum.n, rent)]

RECURSIVE MonthRows(_, _, _, _)
MonthRows(rental, b, days, acc) ==
  IF rental = <<>> \/ acc.threw THEN acc
  ELSE MonthRows(Tail(rental), b, days, MonthRow(Head(rental), b, days, acc))

RECURSIVE MonthTrans(_, _, _)
MonthTrans(trans, days, acc) ==
  IF trans = <<>> \/ acc.threw THEN acc
  ELSE MonthTrans(Tail(trans), days, MonthRows(Head(trans).RentalInfo, Head(trans), days, acc))

RECURSIVE MonthReservations(_, _, _)
MonthReservations(Reservation, days, acc) ==
  IF Reservation = <<>> \/ acc.threw THEN acc
  ELSE MonthReservations(Tail(Reservation), days, MonthTrans(Head(Reservation), days, acc))

\* totalsByDay.reduce((s, d) => s + d.nights, 0), and the same for revenue
RECURSIVE ReduceNights(_)
ReduceNights(totalsByDay) ==
  IF totalsByDay = <<>> THEN 0 ELSE Head(totalsByDay).nights + ReduceNights(Tail(totalsByDay))
RECURSIVE ReduceRevenue(_)
ReduceRevenue(totalsByDay) ==
  IF totalsByDay = <<>> THEN 0 ELSE Head(totalsByDay).revenue + ReduceRevenue(Tail(totalsByDay))

NoCalendar == [threw |-> FALSE, called |-> FALSE]
CalendarThrew == [threw |-> TRUE, called |-> TRUE]

computeMonthlyCalendar(Reservation, month) ==
  LET days == daysInMonthOf(month.Y, month.M)
      acc == MonthReservations(Reservation, days, EmptyCalendar(days))
  IN  IF acc.threw THEN CalendarThrew
      ELSE [threw |-> FALSE, called |-> TRUE,
            summary |-> [month |-> month,
                         daysInMonth |-> days,
                         totalRooms |-> Cardinality(DOMAIN acc.rooms),
                         totalNights |-> ReduceNights(acc.totalsByDay),
                         totalRevenue |-> ReduceRevenue(acc.totalsByDay)],
            rooms |-> acc.rooms,
            totalsByDay |-> acc.totalsByDay]

\* ---------------------------------------------------------------- inputs
\* Month keys /^\d{4}-\d{2}$/ lets through (getMonthParam)
MonthKeys ==
  {[Y |-> y, M |-> 2] : y \in {0, 1900, 2024, 2025}}
  \cup {[Y |-> 2025, M |-> m] : m \in {4, 8}}

MonthDate(monthAtom, dayAtom) == Str(<<monthAtom, "-", dayAtom>>)
MonthRowValues ==
  {[EffectiveDate |-> e, Rent |-> Num(100), RoomTypeCode |-> c] :
     e \in {MonthDate(ThisMonth, "10"), MonthDate(ThisMonth, "29"), MonthDate(ThisMonth, "32"),
            MonthDate(ThisMonth, "xx"), MonthDate(OtherMonth, "10"), Num(5)},
     c \in {Undef, Str(<<"DLX">>), Str(<<"constructor">>)}}
  \cup {[EffectiveDate |-> MonthDate(ThisMonth, "10"), Rent |-> Undef, RoomTypeCode |-> Undef]}
MonthTranCodes == {Undef, Str(<<"STD">>)}

MonthBuilding == ~mout.called

\* ------------------------------------------------------ SpecMonth actions
AddMonthReservation ==
  /\ MonthBuilding
  /\ Len(mdata) < MaxMonthTrans
  /\ mdata' = Append(mdata, <<>>)
  /\ UNCHANGED <<vars, svars, gvars, monthKey, mout>>

AddMonthTran(code) ==
  /\ MonthBuilding
  /\ mdata # <<>>
  /\ CountTrans(mdata) < MaxMonthTrans
  /\ mdata' = [mdata EXCEPT ![Len(mdata)] =
                 Append(@, [RoomTypeCode |-> code, RentalInfo |-> <<>>])]
  /\ UNCHANGED <<vars, svars, gvars, monthKey, mout>>

AddMonthRow(row) ==
  /\ MonthBuilding
  /\ mdata # <<>>
  /\ LET i == Len(mdata)
         j == Len(mdata[i])
     IN  /\ j > 0
         /\ CountRows(mdata) < MaxMonthRows
         /\ mdata' = [mdata EXCEPT ![i][j].RentalInfo = Append(@, row)]
  /\ UNCHANGED <<vars, svars, gvars, monthKey, mout>>

ComputeMonthly ==
  /\ MonthBuilding
  /\ mout' = computeMonthlyCalendar(mdata, monthKey)
  /\ UNCHANGED <<vars, svars, gvars, monthKey, mdata>>

MonthIdle ==
  /\ monthKey = [Y |-> 2025, M |-> 8]
  /\ mdata = <<>>
  /\ mout = NoCalendar



\* ------------------------------------------- claims on the monthly calendar
CalendarReturned == mout.called /\ ~mout.threw

RECURSIVE SumDayNights(_, _)
SumDayNights(totalsByDay, ds) ==
  IF ds = {} THEN 0
  ELSE LET d == CHOOSE x \in ds : TRUE
       IN  totalsByDay[d].nights + SumDayNights(totalsByDay, ds \ {d})
RECURSIVE SumDayRevenue(_, _)
SumDayRevenue(totalsByDay, ds) ==
  IF ds = {} THEN 0
  ELSE LET d == CHOOSE x \in ds : TRUE
       IN  totalsByDay[d].revenue + SumDayRevenue(totalsByDay, ds \ {d})
RECURSIVE SumRoomNights(_, _)
SumRoomNights(rooms, codes) ==
  IF codes = {} THEN 0
  ELSE LET c == CHOOSE x \in codes : TRUE
       IN  rooms[c].totals.nights + SumRoomNights(rooms, codes \ {c})
RECURSIVE SumRoomRevenue(_, _)
SumRoomRevenue(rooms, codes) ==
  IF codes = {} THEN 0
  ELSE LET c == CHOOSE x \in codes : TRUE
       IN  rooms[c].totals.revenue + SumRoomRevenue(rooms, codes \ {c})

GregorianLength(y, m) ==
  IF m = 2
    THEN IF (y % 4 = 0 /\ y % 100 # 0) \/ y % 400 = 0 THEN 29 ELSE 28
    ELSE IF m \in {4, 6, 9, 11} THEN 30 ELSE 31

\* C15: for every month key, daysInMonth is the Gregorian length of the month
\* (29 for February exactly in leap years), and totalsByDay and every room's
\* day array have that many entries.
C15_DaysInMonthIsGregorian ==
  CalendarReturned =>
    LET n == GregorianLength(monthKey.Y, monthKey.M) IN
      /\ mout.summary.daysInMonth = n
      /\ Len(mout.totalsByDay) = n
      /\ \A c \in DOMAIN mout.rooms : Len(mout.rooms[c].days) = n


\* C16: the aggregators never fail: whatever field of the payload is missing,
\* null or of an unexpected type, the call returns a result.
C16_AggregatorsNeverThrow ==
  (mout.called => ~mout.threw) /\ ~out.threw


\* A row of the month whose day of month is not a number in 1..days
RowIsSkipped(ri, days) ==
  /\ ri.EffectiveDate.t = "string"
  /\ StartsWithMonth(Trim(ri.EffectiveDate.s))
  /\ LET dnum == DayNumber(Trim(ri.EffectiveDate.s))
     IN  dnum.nan \/ dnum.n < 1 \/ dnum.n > days

\* The payload without such rows
RECURSIVE KeptRows(_, _)
KeptRows(rental, days) ==
  IF rental = <<>> THEN <<>>
  ELSE (IF RowIsSkipped(Head(rental), days) THEN <<>> ELSE <<Head(rental)>>)
       \o KeptRows(Tail(rental), days)
WithoutSkippedRows(Reservation, days) ==
  [i \in DOMAIN Reservation |->
     [j \in DOMAIN Reservation[i] |->
        [Reservation[i][j] EXCEPT !.RentalInfo = KeptRows(@, days)]]]

\* C17: a row of the month whose day of month is outside 1..daysInMonth, or
\* not a number, is skipped: the calendar (day cells, room totals, totalsByDay
\* and summary) is the one the payload gives without that row.
C17_SkippedRowAddsNothing ==
  CalendarReturned =>
    mout = computeMonthlyCalendar(WithoutSkippedRows(mdata, mout.summary.daysInMonth), monthKey)



(***************************************************************************)
(* Part 4 (specification SpecGroup): the GET / handlers that group the     *)
(* BookingList by reservation date, src/unnamed/part_000 688-766 (two      *)
(* passes) and src/unnamed/part_001 42-106 (incremental).  An entry of     *)
(* data_processed[year][month][day] is kept under the key <<year, month,   *)
(* day>>; part_001 spells the field CanceledNights as Canceled_nights.     *)
(***************************************************************************)
MaxBookings == 2   \* BookingList entries in a payload

\* Number(atom) for the atoms of a date
NumberOfAtom(a) ==
  CASE a = "2025" -> 2025
    [] a = "08" -> 8
    [] a = "01" -> 1
    [] a = "02" -> 2
    [] OTHER -> 0

\* date.split("-").map(Number), of a date "YYYY-MM-DD"
parse_date(date) ==
  <<NumberOfAtom(date.s[1]), NumberOfAtom(date.s[3]), NumberOfAtom(date.s[5])>>

Infinity == [num |-> 1, den |-> 0]
MinusOne == [num |-> -1, den |-> 1]

\* entry.Revenue / entry.Nights || 0: 0 / 0 is NaN, which is falsy; a positive
\* revenue over 0 nights is Infinity, which is truthy.
QuotientOrZero(revenue, nights) ==
  IF nights = 0 THEN (IF revenue = 0 THEN Zero ELSE Infinity)
  ELSE IF revenue = 0 THEN Zero ELSE Quot(revenue, nights)

\* The reservation object built from a BookingList entry n
ReservationOf(n) ==
  [ReservationDate |-> n.ReservationDate, CancelDate |-> n.CancelDate,
   Nights |-> n.NoOfNights, Revenue |-> n.TotalExclusivTax]

NewEntry(init) ==
  [ReservationCount |-> init, Revenue |-> init, Nights |-> init, ADR |-> MinusOne,
   Canceled |-> init, CanceledNights |-> init, ReservationsList |-> <<>>,
   CanceledList |-> <<>>]

EntryAt(entries, k, init) ==
  IF k \in DOMAIN entries THEN entries ELSE entries @@ (k :> NewEntry(init))

\* part_000, first pass: the reservation joins one of the entry's two lists
RECURSIVE CollectLists(_, _)
CollectLists(list, entries) ==
  IF list = <<>> THEN entries
  ELSE
    LET r == ReservationOf(Head(list))
        k == parse_date(r.ReservationDate)
        e == EntryAt(entries, k, -1)
    IN  CollectLists(Tail(list),
          IF r.CancelDate = Str(<<>>)
            THEN [e EXCEPT ![k].ReservationsList = Append(@, r)]
            ELSE [e EXCEPT ![k].CanceledList = Append(@, r)])

RECURSIVE SumRevenue(_)
SumRevenue(rs) == IF rs = <<>> THEN 0 ELSE Head(rs).Revenue + SumRevenue(Tail(rs))
RECURSIVE SumListNights(_)
SumListNights(rs) == IF rs = <<>> THEN 0 ELSE Head(rs).Nights + SumListNights(Tail(rs))

\* part_000, second pass: the counts, sums and ADR of every entry
SecondPass(entries) ==
  [k \in DOMAIN entries |->
     LET e == entries[k]
         revenue == SumRevenue(e.ReservationsList)
         nights == SumListNights(e.ReservationsList)
     IN  [e EXCEPT !.ReservationCount = Len(e.ReservationsList),
                   !.Revenue = revenue,
                   !.Nights = nights,
                   !.ADR = QuotientOrZero(revenue, nights),
                   !.Canceled = Len(e.CanceledList),
                   !.CanceledNights = SumListNights(e.CanceledList)]]

\* part_001: counts and sums are kept as the list is read; ADR stays -1
RECURSIVE Accumulate(_, _)
Accumulate(list, entries) ==
  IF list = <<>> THEN entries
  ELSE
    LET r == ReservationOf(Head(list))
        k == parse_date(r.ReservationDate)
        e == EntryAt(entries, k, 0)
    IN  Accumulate(Tail(list),
          IF r.CancelDate = Str(<<>>)
            THEN [e EXCEPT ![k].ReservationCount = @ + 1,
                           ![k].Revenue = @ + r.Revenue,
                           ![k].Nights = @ + r.Nights,
                           ![k].ReservationsList = Append(@, r)]
            ELSE [e EXCEPT ![k].Canceled = @ + 1,
                           ![k].CanceledNights = @ + r.Nights,
                           ![k].CanceledList = Append(@, r)])

NoResponse == [sent |-> FALSE, entries |-> <<>>]

\* res.json(data_processed)
GroupByReservationDate(list) ==
  [sent |-> TRUE,
   entries |-> IF gvariant = "twoPass"
                 THEN SecondPass(CollectLists(list, <<>>))
                 ELSE Accumulate(list, <<>>)]

BookingListValues ==
  {[ReservationDate |-> Str(<<"2025", "-", "08", "-", d>>), CancelDate |-> c,
    NoOfNights |-> n, TotalExclusivTax |-> x] :
     d \in {"01", "02"}, c \in {Str(<<>>), Str(<<"2025", "-", "08", "-", "02">>)},
     n \in {0, 2, 3}, x \in {0, 100}}

AddListed(b) ==
  /\ ~gout.sent
  /\ Len(glist) < MaxBookings
  /\ glist' = Append(glist, b)
  /\ UNCHANGED <<vars, svars, mvars, gvariant, gout>>

RespondGrouped ==
  /\ ~gout.sent
  /\ gout' = GroupByReservationDate(glist)
  /\ UNCHANGED <<vars, svars, mvars, gvariant, glist>>

GroupIdle ==
  /\ gvariant = "twoPass"
  /\ glist = <<>>
  /\ gout = NoResponse

InitGroup ==
  /\ gvariant \in {"twoPass", "incremental"}
  /\ glist = <<>>
  /\ gout = NoResponse
  /\ CacheIdle
  /\ StatsIdle
  /\ MonthIdle

NextGroup ==
  \/ \E b \in BookingListValues : AddListed(b)
  \/ RespondGrouped

SpecGroup == InitGroup /\ [][NextGroup]_allvars

\* ------------------------------------------- claims on the grouping handler
\* C18: in the response of GET / every date entry's ADR is its Revenue
\* divided by its Nights when Nights > 0 and 0 when Nights = 0, Revenue and
\* Nights being the sums over the entry's bookings that are not cancelled.
C18_EntryAdrIsRevenuePerNight ==
  gout.sent =>
    \A k \in DOMAIN gout.entries :
      LET e == gout.entries[k]
          mine == {i \in DOMAIN glist :
                     /\ parse_date(glist[i].ReservationDate) = k
                     /\ glist[i].CancelDate = Str(<<>>)}
      IN  /\ e.ReservationCount = Cardinality(mine)
          /\ e.Revenue = SumRevenue(e.ReservationsList)
          /\ e.Nights = SumListNights(e.ReservationsList)
          /\ IF e.Nights > 0
               THEN e.ADR.den > 0 /\ e.ADR.num * e.Nights = e.Revenue * e.ADR.den
               ELSE e.ADR = Zero


\* C22: every room of the calendar computeMonthlyCalendar returns has at least
\* one booked day: its totals.nights is at least 1 and one of its day cells
\* has booked = true.
C22_EveryRoomHasBookedDay ==
  CalendarReturned =>
    \A c \in DOMAIN mout.rooms :
      /\ mout.rooms[c].totals.nights >= 1
      /\ \E d \in DOMAIN mout.rooms[c].days : mout.rooms[c].days[d].booked

InitMonth ==
  /\ monthKey \in MonthKeys
  /\ mdata = <<>>
  /\ mout = NoCalendar
  /\ CacheIdle
  /\ StatsIdle
  /\ GroupIdle

NextMonth ==
  \/ AddMonthReservation
  \/ \E code \in MonthTranCodes : AddMonthTran(code)
  \/ \E row \in MonthRowValues : AddMonthRow(row)
  \/ ComputeMonthly

SpecMonth == InitMonth /\ [][NextMonth]_allvars

InitStats ==
  /\ shape \in {"tree", "api", "list"}
  /\ tree = EmptyTree
  /\ blist = <<>>
  /\ out = NoOut
  /\ protoPolluted = FALSE
  /\ CacheIdle
  /\ MonthIdle
  /\ GroupIdle

NextStats ==
  \/ AddReservation
  \/ \E source \in SourceValues, nat \in NationalityValues, amount \in AmountValues :
       AddTran(source, nat, amount)
  \/ \E row \in RowValues : AddRow(row)
  \/ \E dt \in CancelValues : AddCancel(dt)
  \/ \E b \in BookingValues : AddBooking(b)
  \/ \E day \in TargetDays : ComputeDaily(day)
  \/ \E day \in TargetDays : ComputeDailyList(day)
  \/ \E today \in TargetDays : ComputeApi(today)

SpecStats == InitStats /\ [][NextStats]_allvars

Init == CacheInit /\ StatsIdle /\ MonthIdle /\ GroupIdle

Next ==
  \/ Tick
  \/ \E r \in Reqs : StartFetchData(r)
  \/ \E r \in Reqs, day \in Days : StartFetchDay(r, day)
  \/ \E r \in Reqs, d \in Data : UpstreamOkFetchData(r, d)
  \/ \E r \in Reqs, d \in Data : UpstreamOkFetchDay(r, d)
  \/ \E r \in Reqs, outcome \in {"http", "badjson"} : UpstreamFails(r, outcome)
  \/ \E r \in Reqs : WriteOpen(r)
  \/ \E r \in Reqs : WriteOpenFails(r)
  \/ \E r \in Reqs : WriteData(r)
  \/ \E r \in Reqs : NextRequest(r)

Spec == Init /\ [][Next]_allvars

=============================================================================
